---- MODULE Spec2Model ----
(***************************************************************************)
(* Model of stockholm/asn1/ber_decoder.py: the BER header decoder (Header) *)
(* and the tag object built on it (Tag).                                   *)
(*                                                                         *)
(* A Python 2 str is a sequence of octets 0..255, so both the raw bytes    *)
(* and the text produced by str.encode('hex') are sequences of naturals    *)
(* (the text holds ASCII codes).  An optional value is a sequence of       *)
(* length at most one: None is << >> and an object x is << x >>.           *)
(***************************************************************************)
EXTENDS Integers, Sequences, FiniteSets, TLC

VARIABLES
    byte_string,   \* the buffer handed to Tag(...) / Tag.decode
    load_value,    \* Tag.load_value, the constructor's argument
    pc,            \* "start": no Tag yet; "tag": a Tag exists; "raised": __init__ raised
    header,        \* Tag.header: None or << Header record >>
    value,         \* Tag.value: None or << str >>
    nested_tags,   \* Tag.nested_tags: a tuple of tags
    exc,           \* exception raised by the last call, or "none"
    passed         \* history: the tags of the add_nested_tag calls that returned

vars == <<byte_string, load_value, pc, header, value, nested_tags, exc, passed>>

None == << >>

Some(x) == << x >>

----------------------------------------------------------------------------
(* Bounds of the model. *)

\* longest buffer over Octets
MaxLen == 4
\* most add_nested_tag calls on one Tag
MaxNested == 2
\* most octets after the leading length octet in the length family
MaxLengthOctets == 4
\* most octets after the first identifier octet in the identifier family
MaxIdTail == 2

\* representative octets: short tags 0,1,2,5, long-form tag marker 0x1F,
\* a constructed tag 0x30, and length octets 0x80 (indefinite), 0x81 (long form)
Octets == {0, 1, 2, 5, 31, 48, 128, 129}

AllOctets == 0..255

\* tags a caller may hand to add_nested_tag, each named by the buffer it was
\* decoded from (Tag(byte_string=...))
ChildTags == { <<2, 0>>, <<2, 1, 5>> }

----------------------------------------------------------------------------
(* Python primitives. *)

Min(a, b) == IF a < b THEN a ELSE b

Max(a, b) == IF a > b THEN a ELSE b

\* s[a:b] for 0 <= a, 0 <= b: the elements at 0-based positions a .. b-1 that exist
Slice(s, a, b) == [i \in 1..Max(0, Min(b, Len(s)) - a) |-> s[a + i]]

RECURSIVE Pow2(_)
Pow2(n) == IF n = 0 THEN 1 ELSE 2 * Pow2(n - 1)

\* a << n (0 << n is 0 whatever n is)
ShiftLeft(a, n) == IF a = 0 THEN 0 ELSE a * Pow2(n)

\* a | b on non-negative integers
RECURSIVE BitOr(_, _)
BitOr(a, b) ==
    IF a = 0 THEN b
    ELSE IF b = 0 THEN a
    ELSE (IF a % 2 = 1 \/ b % 2 = 1 THEN 1 ELSE 0) + 2 * BitOr(a \div 2, b \div 2)

\* a & m where m = 2^k is a single bit
BitTest(a, m) == ((a \div m) % 2) * m

SeqsUpTo(S, n) == UNION { [1..k -> S] : k \in 0..n }

----------------------------------------------------------------------------
(* Module-level functions. *)

\* a variant that tests bit 0x40 instead of bit 0x20
tag_type_decode_bit64(bs) == IF BitTest(bs[1], 64) = 64 THEN 1 ELSE 0

\* int(first_octet & 32 == 32); byte_string[0] exists at every call site modelled
tag_type_decode(bs) == IF BitTest(bs[1], 32) = 32 THEN 1 ELSE 0

\* the while loop of lvq_decode: the size at which it breaks, or -1 when
\* ord('') raises TypeError because the string is exhausted
RECURSIVE lvq_scan(_, _)
lvq_scan(bs, size) ==
    IF size >= Len(bs) THEN -1
    ELSE IF BitTest(bs[size + 1], 128) = 0 THEN size + 1
    ELSE lvq_scan(bs, size + 1)

\* the for loop of lvq_decode: `i << shift` and `shift - 7` are expression
\* statements without effect, so the loop is result |= i over the values
RECURSIVE lvq_fold(_, _, _)
lvq_fold(bs, size, i) ==
    IF i > size THEN 0
    ELSE BitOr(bs[i] % 128, lvq_fold(bs, size, i + 1))

lvq_decode(bs) ==
    LET size == lvq_scan(bs, 0) IN
    IF size = -1 THEN [exc |-> "TypeError", result |-> 0, size |-> 0]
    ELSE [exc |-> "none", result |-> lvq_fold(bs, size, 1), size |-> size]

tag_identifier_decode(bs) ==
    LET first_octet == bs[1] IN
    IF first_octet % 32 = 31
    THEN LET r == lvq_decode(Slice(bs, 1, Len(bs))) IN
         [exc |-> r.exc, number |-> r.result, identifier_octets |-> r.size + 1]
    ELSE [exc |-> "none",
          number |-> first_octet - (first_octet \div 32) * 32,
          identifier_octets |-> 1]

\* length |= ord(byte_string[i]) << shift; shift -= 8
RECURSIVE long_format_fold(_, _, _)
long_format_fold(bs, i, shift) ==
    IF i > Len(bs) THEN 0
    ELSE BitOr(ShiftLeft(bs[i], shift), long_format_fold(bs, i + 1, shift - 8))

\* a variant whose shift is never decremented (`shift - 8` for `shift -= 8`)
RECURSIVE long_format_fold_noshift(_, _, _)
long_format_fold_noshift(bs, i, shift) ==
    IF i > Len(bs) THEN 0
    ELSE BitOr(ShiftLeft(bs[i], shift), long_format_fold_noshift(bs, i + 1, shift))

long_format_length_decode_noshift(bs) ==
    IF Len(bs) = 0 THEN 0 ELSE long_format_fold_noshift(bs, 1, 8 * (Len(bs) - 1))

long_format_length_decode(bs) ==
    IF Len(bs) = 0 THEN 0 ELSE long_format_fold(bs, 1, 8 * (Len(bs) - 1))

----------------------------------------------------------------------------
(* class Header *)

\* the fields __init__ sets before it calls length_decode
header_fields(type, number, identifier_octets) ==
    [type |-> type, number |-> number, identifier_octets |-> identifier_octets,
     octets |-> 0, length_octets |-> 0, data_length |-> 0, total_octets |-> 0,
     extra_data_length |-> 0]

\* a variant that stores the remaining byte count in data_length
length_indefinite_rest(self, bs) ==
    LET octets == self.identifier_octets + 1 IN
    [self EXCEPT !.length_octets = 1,
                 !.octets = octets,
                 !.data_length = Len(bs) - octets]

\* first_octet == 128
length_indefinite(self, bs) ==
    LET octets == self.identifier_octets + 1 IN
    [self EXCEPT !.length_octets = 1,
                 !.octets = octets,
                 !.extra_data_length = Len(bs) - octets]

\* first_octet & 128 == 128
length_long(self, bs, first_octet) ==
    LET number_of_extra_length_octets == first_octet - 128
        index == self.identifier_octets + 1
    IN  [self EXCEPT !.length_octets = 1 + number_of_extra_length_octets,
                     !.octets = self.identifier_octets + 1 + number_of_extra_length_octets,
                     !.data_length = long_format_length_decode(
                         Slice(bs, index, index + number_of_extra_length_octets)),
                     !.extra_data_length = 0]

\* a variant that never stores the short-form length
length_short_unset(self, bs, first_octet) ==
    LET octets == self.identifier_octets + 1 IN
    [self EXCEPT !.length_octets = 1,
                 !.octets = octets,
                 !.extra_data_length = Len(bs) - octets - first_octet]

\* the short format
length_short(self, bs, first_octet) ==
    LET octets == self.identifier_octets + 1 IN
    [self EXCEPT !.length_octets = 1,
                 !.octets = octets,
                 !.data_length = first_octet,
                 !.extra_data_length = Len(bs) - octets - first_octet]

\* Header.length_decode; byte_string[identifier_octets] raises IndexError
\* when no octet follows the identifier octets
length_decode(self, bs) ==
    IF self.identifier_octets >= Len(bs)
    THEN [exc |-> "IndexError", hdr |-> None]
    ELSE LET first_octet == bs[self.identifier_octets + 1]
             h == IF first_octet = 128 THEN length_indefinite(self, bs)
                  ELSE IF BitTest(first_octet, 128) = 128
                       THEN length_long(self, bs, first_octet)
                       ELSE length_short(self, bs, first_octet)
         IN  [exc |-> "none",
              hdr |-> Some([h EXCEPT !.total_octets = h.octets + h.data_length])]

\* Header(byte_string): the header, or the exception the constructor raises
Header(bs) ==
    IF Len(bs) = 0 THEN [exc |-> "IndexError", hdr |-> None]
    ELSE LET id == tag_identifier_decode(bs) IN
         IF id.exc # "none" THEN [exc |-> id.exc, hdr |-> None]
         ELSE length_decode(
                  header_fields(tag_type_decode(bs), id.number, id.identifier_octets), bs)

----------------------------------------------------------------------------
(* class Tag *)

\* one byte as two lowercase hexadecimal digits (ASCII codes)
HexDigit(d) == IF d < 10 THEN 48 + d ELSE 97 + (d - 10)

\* byte_string.encode('hex')
RECURSIVE decode_value(_)
decode_value(bs) ==
    IF bs = << >> THEN << >>
    ELSE <<HexDigit(bs[1] \div 16), HexDigit(bs[1] % 16)>> \o decode_value(Tail(bs))

\* a variant that takes everything after the header
decode_primitive_rest(h, bs) == decode_value(Slice(bs, h.octets, Len(bs)))

decode_primitive(h, bs) == decode_value(Slice(bs, h.octets, h.total_octets))

decode_constructed(h, bs) == Slice(bs, h.octets, h.total_octets)

\* Tag.decode on a tag whose header is hdr and whose value is val
decode(hdr, val, lv, bs) ==
    LET made == IF hdr = None THEN Header(bs) ELSE [exc |-> "none", hdr |-> hdr] IN
    IF made.exc # "none" THEN [exc |-> made.exc, hdr |-> hdr, val |-> val]
    ELSE LET h == made.hdr[1] IN
         [exc |-> "none",
          hdr |-> made.hdr,
          val |-> IF ~lv THEN val
                  ELSE IF h.type = 0 THEN Some(decode_primitive(h, bs))
                  ELSE Some(decode_constructed(h, bs))]

\* a variant that puts the new tag first
add_nested_tag_prepend(h, nested, tag) ==
    IF h.type = 1 THEN <<tag>> \o nested ELSE nested

\* Tag.add_nested_tag: the new nested_tags
add_nested_tag(h, nested, tag) ==
    IF h.type = 1 THEN nested \o <<tag>> ELSE nested

\* Tag.get_type (text as a TLA+ string)
get_type(h) ==
    LET type_name == IF h.type = 0 THEN "primitive" ELSE "constructed" IN
    IF h.data_length = 0 THEN type_name \o "-Indefinite" ELSE type_name

----------------------------------------------------------------------------
(* Operations. *)

\* Tag(byte_string=bs, load_value=lv) or, without bytes, Tag(load_value=lv)
TagInit(withBytes) ==
    /\ pc = "start"
    /\ IF withBytes /\ byte_string # << >>
       THEN LET r == decode(None, None, load_value, byte_string) IN
            IF r.exc # "none"
            THEN /\ pc' = "raised"
                 /\ exc' = r.exc
                 /\ UNCHANGED <<header, value>>
            ELSE /\ pc' = "tag"
                 /\ header' = r.hdr
                 /\ value' = r.val
                 /\ exc' = "none"
       ELSE /\ pc' = "tag"
            /\ exc' = "none"
            /\ UNCHANGED <<header, value>>
    /\ UNCHANGED <<byte_string, load_value, nested_tags, passed>>

\* tag.decode(byte_string) on an existing tag
Decode ==
    /\ pc = "tag"
    /\ LET r == decode(header, value, load_value, byte_string) IN
       /\ header' = r.hdr
       /\ value' = r.val
       /\ exc' = r.exc
    /\ UNCHANGED <<byte_string, load_value, pc, nested_tags, passed>>

\* tag.add_nested_tag(t); self.header.type raises AttributeError on None
AddNestedTag(t) ==
    /\ pc = "tag"
    /\ Len(passed) < MaxNested
    /\ IF header = None
       THEN /\ exc' = "AttributeError"
            /\ UNCHANGED <<nested_tags, passed>>
       ELSE /\ exc' = "none"
            /\ nested_tags' = add_nested_tag(header[1], nested_tags, t)
            /\ passed' = Append(passed, t)
    /\ UNCHANGED <<byte_string, load_value, pc, header, value>>

Next ==
    \/ \E withBytes \in BOOLEAN : TagInit(withBytes)
    \/ Decode
    \/ \E t \in ChildTags : AddNestedTag(t)

InitWith(buffers) ==
    /\ byte_string \in buffers
    /\ load_value \in BOOLEAN
    /\ pc = "start"
    /\ header = None
    /\ value = None
    /\ nested_tags = << >>
    /\ exc = "none"
    /\ passed = << >>

\* the buffers of the documented examples: a leaf, a sequence of one leaf and
\* a sequence of two leaves
Examples == { <<2, 1, 5>>, <<48, 3, 2, 1, 5>>, <<48, 6, 2, 1, 5, 2, 1, 5>> }

\* every buffer of at most MaxLen representative octets, and the examples
Init == InitWith(SeqsUpTo(Octets, MaxLen) \cup Examples)

Spec == Init /\ [][Next]_vars

\* The length family: an identifier, every form of length octets, a tail.
Identifiers == { <<2>>, <<48>>, <<31, 1>>, <<63, 129, 0>> }

LengthValueOctets == {0, 1, 63, 128, 255}

\* Python's integers are unbounded and TLC's are 32 bits wide: the
\* family holds the long-form encodings of the values below 2^30, so that
\* total_octets stays in range
Below30Bits(n) ==
    /\ \A i \in 1..(Len(n) - 4) : n[i] = 0
    /\ Len(n) >= 4 => n[Len(n) - 3] < 64

LengthForms ==
    { <<v>> : v \in 0..128 }
    \cup UNION { { <<128 + k>> \o n : n \in { m \in [1..k -> LengthValueOctets] : Below30Bits(m) } }
                 : k \in 1..MaxLengthOctets }

Tails == { << >>, <<5>> }

InitLength ==
    InitWith({ id \o l \o t : id \in Identifiers, l \in LengthForms, t \in Tails })

SpecLength == InitLength /\ [][Next]_vars

\* The identifier family: every first octet, then a few octets.
IdTailOctets == {0, 1, 129}

InitIdentifier ==
    InitWith({ <<b>> \o r : b \in AllOctets, r \in SeqsUpTo(IdTailOctets, MaxIdTail) })

SpecIdentifier == InitIdentifier /\ [][Next]_vars

----------------------------------------------------------------------------
(* What the encoding rules say, stated without the decoder. *)

\* bit 0x20 of an octet is set
Bit6Set(b) == \E hi \in 0..3, lo \in 0..31 : b = 64 * hi + 32 + lo

\* the number of identifier octets of a buffer: 1 for a short-form tag, else
\* up to the first continuation octet with the high bit clear; 0 when the
\* buffer ends before one
IdentifierEnd(bs) ==
    IF bs[1] % 32 # 31 THEN 1
    ELSE LET T == { i \in 2..Len(bs) : bs[i] < 128 } IN
         IF T = {} THEN 0 ELSE CHOOSE i \in T : \A j \in T : i <= j

\* value = (value << 7) | (octet & 0x7F) over the octets in order
RECURSIVE Base128Value(_)
Base128Value(s) ==
    IF s = << >> THEN 0
    ELSE Base128Value(SubSeq(s, 1, Len(s) - 1)) * 128 + (s[Len(s)] % 128)

\* the big-endian unsigned value of the octets
RECURSIVE BigEndianValue(_)
BigEndianValue(s) ==
    IF s = << >> THEN 0
    ELSE BigEndianValue(SubSeq(s, 1, Len(s) - 1)) * 256 + s[Len(s)]

\* ASCII codes of 0123456789abcdef
HexChars == <<48, 49, 50, 51, 52, 53, 54, 55, 56, 57, 97, 98, 99, 100, 101, 102>>

RECURSIVE HexText(_)
HexText(s) ==
    IF s = << >> THEN << >>
    ELSE <<HexChars[(s[1] \div 16) + 1], HexChars[(s[1] % 16) + 1]>> \o HexText(Tail(s))

\* a span cut into the complete TLV encodings it is the concatenation of
RECURSIVE SplitTLVs(_)
SplitTLVs(span) ==
    IF span = << >> THEN [ok |-> TRUE, tags |-> << >>]
    ELSE LET r == Header(span) IN
         IF r.exc # "none" \/ r.hdr[1].total_octets > Len(span)
         THEN [ok |-> FALSE, tags |-> << >>]
         ELSE LET n == r.hdr[1].total_octets
                  rest == SplitTLVs(SubSeq(span, n + 1, Len(span)))
              IN  [ok |-> rest.ok, tags |-> <<SubSeq(span, 1, n)>> \o rest.tags]

RECURSIVE SumLen(_)
SumLen(ss) == IF ss = << >> THEN 0 ELSE Len(ss[1]) + SumLen(Tail(ss))

\* the buffer ends inside the header: (a) in the continuation octets of a
\* long-form tag, (b) before the length octet, (c) inside the octets a
\* long-form length octet 0x80|k announces
TruncatedInHeader(bs) ==
    /\ Len(bs) >= 1
    /\ LET e == IdentifierEnd(bs) IN
       \/ e = 0
       \/ e = Len(bs)
       \/ /\ e < Len(bs)
          /\ bs[e + 1] > 128
          /\ Len(bs) - (e + 1) < bs[e + 1] - 128

\* the first length octet of a buffer whose header was decoded
LengthOctet == byte_string[IdentifierEnd(byte_string) + 1]

----------------------------------------------------------------------------
(* The claims. *)

\* C1: a long-form tag (low 5 bits of the first octet = 31) followed by the
\* base-128 continuation encoding of n decodes to the tag number n.
C1_LongTagNumber ==
    (header # None /\ byte_string[1] % 32 = 31) =>
        header[1].number =
            Base128Value(SubSeq(byte_string, 2, IdentifierEnd(byte_string)))

\* C2: a constructed tag decoded from a buffer whose value span is exactly a
\* concatenation of complete child TLVs has those children, in order, as its
\* nested_tags, and their octet counts add up to data_length.  (passed = << >>:
\* no caller has added a tag yet.)
C2_ConstructedChildren ==
    (/\ header # None
     /\ load_value
     /\ passed = << >>
     /\ Bit6Set(byte_string[1])
     /\ header[1].total_octets <= Len(byte_string)
     /\ SplitTLVs(SubSeq(byte_string, header[1].octets + 1, header[1].total_octets)).ok)
    => LET kids == SplitTLVs(SubSeq(byte_string, header[1].octets + 1,
                                    header[1].total_octets)).tags
       IN  /\ nested_tags = kids
           /\ SumLen(nested_tags) = header[1].data_length

\* C3: every Header that was built lies within its buffer: a buffer shorter
\* than header octets + declared value length is refused.
C3_TotalWithinBuffer ==
    header # None => header[1].total_octets <= Len(byte_string)

\* C4 as stated: with a first length octet of 0x80 the header has one length
\* octet and data_length is the number of bytes after the header, the node's
\* value being the rest of the buffer.
C4_IndefiniteRestOfBuffer ==
    (header # None /\ LengthOctet = 128) =>
        /\ header[1].length_octets = 1
        /\ header[1].data_length = Len(byte_string) - header[1].octets
        /\ header[1].total_octets = Len(byte_string)

\* C4 as amended: with a first length octet of 0x80 the header has one length
\* octet, data_length = 0 (which get_type reports as "-Indefinite") and
\* total_octets = octets; the number of bytes after the header is kept in
\* extra_data_length, and a loaded value is empty.
C4_IndefiniteExtraData ==
    (header # None /\ LengthOctet = 128) =>
        /\ header[1].length_octets = 1
        /\ header[1].octets = IdentifierEnd(byte_string) + 1
        /\ header[1].data_length = 0
        /\ header[1].total_octets = header[1].octets
        /\ header[1].extra_data_length = Len(byte_string) - header[1].octets
        /\ get_type(header[1]) \in {"primitive-Indefinite", "constructed-Indefinite"}
        /\ load_value => value = Some(<< >>)

C4_Witness ==
    /\ header # None
    /\ LengthOctet = 128
    /\ load_value
    /\ header[1].extra_data_length = 2
    /\ value = Some(<< >>)

\* C5: a length octet 0x80|k, k >= 1, followed by k octets holding the
\* big-endian value n gives data_length = n and length_octets = 1 + k.
C5_LongFormLength ==
    (/\ header # None
     /\ LengthOctet > 128
     /\ LengthOctet - 128 <= MaxLengthOctets
     /\ Len(byte_string) >= IdentifierEnd(byte_string) + 1 + (LengthOctet - 128))
    => LET e == IdentifierEnd(byte_string)
           k == LengthOctet - 128
       IN  /\ header[1].data_length = BigEndianValue(SubSeq(byte_string, e + 2, e + 1 + k))
           /\ header[1].length_octets = 1 + k

C5_Witness ==
    /\ header # None
    /\ byte_string = <<63, 129, 0, 132, 1, 0, 255, 128, 5>>
    /\ header[1].data_length = 16842624
    /\ header[1].length_octets = 5

\* C6: a short-form length octet v in 0..127 gives data_length = v and
\* length_octets = 1, whatever the tag form and the bytes that follow.
C6_ShortFormLength ==
    (header # None /\ LengthOctet < 128) =>
        /\ header[1].data_length = LengthOctet
        /\ header[1].length_octets = 1

C6_Witness ==
    /\ header # None
    /\ byte_string = <<63, 129, 0, 127, 5>>
    /\ header[1].data_length = 127
    /\ header[1].length_octets = 1

\* C7: no Header is built from a buffer that ends inside the header.
C7_TruncatedHeaderRefused ==
    TruncatedInHeader(byte_string) => header = None

\* C8: a primitive tag decoded with load_value on has as its value the
\* lowercase hex text of the bytes between header.octets and
\* header.total_octets, and has no children; <<2, 1, 5>> gives tag 2,
\* length 1, value "05".
C8_PrimitiveValue ==
    /\ (header # None /\ load_value /\ ~Bit6Set(byte_string[1])) =>
           /\ value = Some(HexText(SubSeq(byte_string, header[1].octets + 1,
                               Min(header[1].total_octets, Len(byte_string)))))
           /\ nested_tags = << >>
    /\ (header # None /\ load_value /\ byte_string = <<2, 1, 5>>) =>
           /\ header[1].number = 2
           /\ header[1].data_length = 1
           /\ value = Some(<<48, 53>>)

C8_Witness ==
    /\ header # None
    /\ load_value
    /\ byte_string = <<2, 1, 31, 5>>
    /\ value = Some(<<49, 102>>)
    /\ passed # << >>

\* C9: Header.type is 1 exactly when bit 0x20 of the first octet is set, and
\* a first octet whose low 5 bits are not 31 gives those bits as the tag
\* number, with one identifier octet.
C9_TypeAndShortNumber ==
    header # None =>
        /\ header[1].type = (IF Bit6Set(byte_string[1]) THEN 1 ELSE 0)
        /\ byte_string[1] % 32 # 31 =>
               /\ header[1].number = byte_string[1] % 32
               /\ header[1].identifier_octets = 1

C9_Witness ==
    /\ header # None
    /\ byte_string[1] = 112
    /\ header[1].type = 1
    /\ header[1].number = 16

\* C10: on a constructed tag nested_tags is the sequence of tags passed to
\* add_nested_tag, in call order; on a primitive tag it stays empty; and a
\* call changes neither header nor value.
C10_NestedTags ==
    /\ [](header # None =>
            IF Bit6Set(byte_string[1]) THEN nested_tags = passed
            ELSE nested_tags = << >>)
    /\ [][passed' # passed => header' = header /\ value' = value]_vars

C10_Witness ==
    /\ header # None
    /\ Bit6Set(byte_string[1])
    /\ nested_tags = << <<2, 1, 5>>, <<2, 0>> >>

====
